---- MODULE Spec2Model ----
(***************************************************************************)
(* Model of plugins/modules/sysdumpdev.py: the Ansible module that reads   *)
(* the AIX system dump configuration with `sysdumpdev -l`, compares it     *)
(* with the requested parameters and applies the difference with one       *)
(* `sysdumpdev <flags>` command (or only reports it in check mode).        *)
(*                                                                         *)
(* Python values are encoded as strings: a str is itself, the booleans     *)
(* are the tokens True and False below, None is the token None; so the     *)
(* str 'TRUE' and the bool True are different values, as in Python.        *)
(* A report line is the sequence of its whitespace-separated words         *)
(* (str.split()); str.startswith(prefix) is matched on whole words.        *)
(***************************************************************************)
EXTENDS Integers, Sequences, FiniteSets, TLC

VARIABLES
    params,          \* module.params
    check_mode,      \* module.check_mode
    sys,             \* the dump subsystem of the host (what sysdumpdev holds)
    pc,              \* position inside run_module
    run,             \* number of the current invocation of the module
    query_rc,        \* exit code run_command returned for `sysdumpdev -l`
    stdout,          \* stdout of `sysdumpdev -l`, as lines of words
    current_config,  \* the record get_dump_config returned
    cmd_args,        \* cmd_args as update_dump_config built it
    applyCalls,      \* argument lists handed to run_command by set_dump_config
    apply_rc,        \* exit code of the apply command of this invocation
    outcome,         \* how the invocation ended
    ended,           \* the function in which the invocation ended
    result,          \* the payload handed to exit_json / fail_json
    prev             \* summary of the previous invocation

vars == <<params, check_mode, sys, pc, run, query_rc, stdout, current_config,
          cmd_args, applyCalls, apply_rc, outcome, ended, result, prev>>

----------------------------------------------------------------------------
(* Bounds *)

\* number of successive invocations of the module with the same parameters
MaxRuns == 2
\* number of lines of an arbitrary report handed to the parser
MaxLines == 2

----------------------------------------------------------------------------
(* Python values *)

True == "<True>"
False == "<False>"
None == "<None>"
\* a key that a dict / payload does not carry
Absent == "<absent>"
\* exit code not yet produced
NoRc == -1

PyBool(b) == IF b THEN True ELSE False

Str(rc) == IF rc = 0 THEN "0" ELSE IF rc = 1 THEN "1" ELSE "?"

\* A text put together by + and join() is the sequence of the pieces it is
\* concatenated from; '' is the empty sequence and + is \o.
EmptyText == <<>>
\* a text key that a payload does not carry
AbsentText == <<Absent>>

\* sep.join(words): the words with sep between each two neighbours
Join(sep, words) ==
    [i \in 1..(2 * Len(words) - 1) |->
        IF i % 2 = 1 THEN words[(i + 1) \div 2] ELSE sep]

----------------------------------------------------------------------------
(* get_dump_config: parsing the report of `sysdumpdev -l` *)

Keys == {"primary", "secondary", "copy_directory", "forced_copy_flag",
         "always_allow_dump", "dump_compression", "dump_type", "dump_mode",
         "nx_gzip"}

\* the startswith() prefix of each `if`, the key it fills and the index
\* (0-based, as in the code) of the word of line.split() it stores
PrefixTable == <<
    [words |-> <<"primary">>,                 key |-> "primary",           index |-> 1],
    [words |-> <<"secondary">>,               key |-> "secondary",         index |-> 1],
    [words |-> <<"copy", "directory">>,       key |-> "copy_directory",    index |-> 2],
    [words |-> <<"forced", "copy", "flag">>,  key |-> "forced_copy_flag",  index |-> 3],
    [words |-> <<"always", "allow", "dump">>, key |-> "always_allow_dump", index |-> 3],
    [words |-> <<"dump", "compression">>,     key |-> "dump_compression",  index |-> 2],
    [words |-> <<"type", "of", "dump">>,      key |-> "dump_type",         index |-> 3],
    [words |-> <<"full", "memory", "dump">>,  key |-> "dump_mode",         index |-> 3],
    [words |-> <<"enable", "NX", "GZIP">>,    key |-> "nx_gzip",           index |-> 3] >>

\* line.startswith(prefix), on whole words
StartsWith(line, words) ==
    /\ Len(line) >= Len(words)
    /\ SubSeq(line, 1, Len(words)) = words

EmptyConfig == [k \in {} |-> None]

\* the entries of PrefixTable whose `if` fires on this line
Matching(line) == {i \in DOMAIN PrefixTable : StartsWith(line, PrefixTable[i].words)}

\* line.split()[index] raises IndexError on a line with too few words
LineRaises(line) ==
    \E i \in Matching(line) : Len(line) < PrefixTable[i].index + 1

\* for line in stdout.splitlines(): the nine `if line.startswith(...)`
\* statements; every `if` stores the word at its index under its own key, so
\* a key ends up with the word of the last line on which its `if` fires
ParseLines(cfg, lines) ==
    LET fires(i) == {n \in DOMAIN lines : StartsWith(lines[n], PrefixTable[i].words)}
        stored == {PrefixTable[i].key : i \in {j \in DOMAIN PrefixTable : fires(j) /= {}}}
    IN  [k \in (DOMAIN cfg) \cup stored |->
            IF k \in stored
            THEN LET i == CHOOSE j \in DOMAIN PrefixTable : PrefixTable[j].key = k
                     on == fires(i)
                     last == CHOOSE n \in on : \A m \in on : m <= n
                 IN  lines[last][PrefixTable[i].index + 1]
            ELSE cfg[k]]

\* the four `if isinstance(value, str) and value == ...` of the second loop
NormaliseValue(value) ==
    IF value = "TRUE" THEN True
    ELSE IF value = "FALSE" THEN False
    ELSE IF value = "ON" THEN True
    ELSE IF value = "OFF" THEN False
    ELSE value

\* for key, value in dump_config.items(): ...   (every key of the record)
Normalise(cfg) == [k \in DOMAIN cfg |-> NormaliseValue(cfg[k])]

\* rc = 0 right after run_command: the value the `if rc != 0` test sees
CheckedRc(rc) == 0

\* does get_dump_config call fail_json for this exit code of the query
QueryFails(rc) == CheckedRc(rc) /= 0

\* the record get_dump_config returns for a report that raises nothing
ParseReport(lines) == Normalise(ParseLines(EmptyConfig, lines))

ReportRaises(lines) == \E n \in DOMAIN lines : LineRaises(lines[n])

----------------------------------------------------------------------------
(* update_dump_config: comparing module.params (p) with current_config (cur) *)

Has(cur, key) == key \in DOMAIN cur

\* first half of each `is not None and (... != current_config[...])` test
Specified(p, key) == p[key] /= None

\* a current_config[...] subscript evaluated before the nx_gzip block that
\* raises KeyError
KeyErrorBeforeNx(p, cur) ==
    \/ Specified(p, "primary") /\ ~Has(cur, "primary")
    \/ Specified(p, "secondary") /\ ~Has(cur, "secondary")
    \/ ~Has(cur, "copy_directory")
    \/ ~Has(cur, "forced_copy_flag")
    \/ Specified(p, "always_allow_dump") /\ ~Has(cur, "always_allow_dump")

\* a current_config[...] subscript evaluated after the nx_gzip block that
\* raises KeyError
KeyErrorAfterNx(p, cur) ==
    \/ (Specified(p, "dump_type") \/ Specified(p, "dump_mode")) /\ ~Has(cur, "dump_type")
    \/ /\ Specified(p, "dump_mode")
       /\ Has(cur, "dump_type")
       /\ cur["dump_type"] = "fw-assisted"
       /\ ~Has(cur, "dump_mode")

PrimaryChanged(p, cur) == Specified(p, "primary") /\ p.primary /= cur["primary"]

SecondaryChanged(p, cur) == Specified(p, "secondary") /\ p.secondary /= cur["secondary"]

PrimaryArgs(p, cur) == IF PrimaryChanged(p, cur) THEN <<"-p", p.primary>> ELSE <<>>

SecondaryArgs(p, cur) == IF SecondaryChanged(p, cur) THEN <<"-s", p.secondary>> ELSE <<>>

dump_device_changed(p, cur) == PrimaryChanged(p, cur) \/ SecondaryChanged(p, cur)

\* -P for permanent alone, whether or not a device changed
PermanentArgs_Mutant(p, cur) ==
    IF p.permanent = True THEN <<"-P">> ELSE <<>>

PermanentArgs(p, cur) ==
    IF p.permanent = True /\ dump_device_changed(p, cur) THEN <<"-P">> ELSE <<>>

copy_directory_change(p, cur) ==
    Specified(p, "copy_directory") /\ p.copy_directory /= cur["copy_directory"]

forced_copy_flag_change(p, cur) ==
    Specified(p, "forced_copy_flag") /\ p.forced_copy_flag /= cur["forced_copy_flag"]

target_copy_directory(p, cur) ==
    IF copy_directory_change(p, cur) THEN p.copy_directory ELSE cur["copy_directory"]

target_forced_copy_flag(p, cur) ==
    IF forced_copy_flag_change(p, cur) THEN p.forced_copy_flag ELSE cur["forced_copy_flag"]

CopyChanged(p, cur) == copy_directory_change(p, cur) \/ forced_copy_flag_change(p, cur)

\* the copy flag chosen from the current forced-copy flag, not the target
CopyFlag_Mutant(p, cur) == IF cur["forced_copy_flag"] = True THEN "-D" ELSE "-d"

CopyFlag(p, cur) == IF target_forced_copy_flag(p, cur) = True THEN "-D" ELSE "-d"

CopyArgs(p, cur) ==
    IF CopyChanged(p, cur)
    THEN <<CopyFlag(p, cur), target_copy_directory(p, cur)>>
    ELSE <<>>

\* always_allow_dump taken as changed as soon as it is specified
AlwaysAllowChanged_Mutant(p, cur) == Specified(p, "always_allow_dump")

AlwaysAllowChanged(p, cur) ==
    Specified(p, "always_allow_dump") /\ p.always_allow_dump /= cur["always_allow_dump"]

AlwaysAllowArgs(p, cur) ==
    IF AlwaysAllowChanged(p, cur)
    THEN <<IF p.always_allow_dump = True THEN "-K" ELSE "-k">>
    ELSE <<>>

\* a missing nx_gzip key taken as nothing to change
NxGzipUnavailable_Mutant(p, cur) == FALSE

\* the `else` branch of `if 'nx_gzip' in current_config.keys()`
NxGzipUnavailable(p, cur) == Specified(p, "nx_gzip") /\ ~Has(cur, "nx_gzip")

NxGzipChanged(p, cur) ==
    Specified(p, "nx_gzip") /\ Has(cur, "nx_gzip") /\ p.nx_gzip /= cur["nx_gzip"]

NxGzipArgs(p, cur) ==
    IF NxGzipChanged(p, cur)
    THEN <<IF p.nx_gzip = True THEN "-N" ELSE "-n">>
    ELSE <<>>

DumpTypeChanged(p, cur) == Specified(p, "dump_type") /\ p.dump_type /= cur["dump_type"]

DumpTypeArgs(p, cur) == IF DumpTypeChanged(p, cur) THEN <<"-t", p.dump_type>> ELSE <<>>

\* the dump_type test made only when dump_mode differs from the current one
DumpModePrecondFails_Mutant(p, cur) ==
    /\ Specified(p, "dump_mode")
    /\ cur["dump_type"] /= "fw-assisted"
    /\ p.dump_mode /= cur["dump_mode"]

\* `if current_config['dump_type'] != 'fw-assisted'` under `dump_mode is not None`
DumpModePrecondFails(p, cur) ==
    Specified(p, "dump_mode") /\ cur["dump_type"] /= "fw-assisted"

DumpModeChanged(p, cur) ==
    /\ Specified(p, "dump_mode")
    /\ cur["dump_type"] = "fw-assisted"
    /\ p.dump_mode /= cur["dump_mode"]

DumpModeArgs(p, cur) == IF DumpModeChanged(p, cur) THEN <<"-f", p.dump_mode>> ELSE <<>>

\* cmd_args when the nx_gzip block is reached
ArgsBeforeNx(p, cur) ==
    PrimaryArgs(p, cur) \o SecondaryArgs(p, cur) \o PermanentArgs(p, cur)
        \o CopyArgs(p, cur) \o AlwaysAllowArgs(p, cur)

\* return_dict['changed'] when the nx_gzip block is reached
ChangedBeforeNx(p, cur) ==
    dump_device_changed(p, cur) \/ CopyChanged(p, cur) \/ AlwaysAllowChanged(p, cur)

\* cmd_args when the dump_mode block is reached
ArgsBeforeMode(p, cur) ==
    ArgsBeforeNx(p, cur) \o NxGzipArgs(p, cur) \o DumpTypeArgs(p, cur)

\* return_dict['changed'] when the dump_mode block is reached
ChangedBeforeMode(p, cur) ==
    ChangedBeforeNx(p, cur) \/ NxGzipChanged(p, cur) \/ DumpTypeChanged(p, cur)

\* cmd_args at `if return_dict['changed']`
AllArgs(p, cur) == ArgsBeforeMode(p, cur) \o DumpModeArgs(p, cur)

\* return_dict['changed'] at `if return_dict['changed']`
ChangedAtEnd(p, cur) == ChangedBeforeMode(p, cur) \/ DumpModeChanged(p, cur)

\* module.get_bin_path('sysdumpdev', required=True)
BinPath == "/usr/sbin/sysdumpdev"

\* return_dict as update_dump_config initialises it, with `changed` as given
ReturnDict(changed) ==
    [changed |-> PyBool(changed), cmd |-> EmptyText, rc |-> "", stdout |-> "",
     stderr |-> "", msg |-> Absent, msg_cmd |-> EmptyText, facts |-> FALSE]

NxGzipMsg == "nx_gzip option not available on target system"
DumpModeMsg == "dump_type must be fw-assisted before you configure dump_mode"
NoChangeMsg == "No modification is required"
FailedRunMsg == "Failed to run sysdumpdev command: "

\* stdout / stderr of the apply command
ApplyStdout == "sample stdout"
ApplyStderr == "sample stderr"

\* the check-mode command text built from the resolved binary path
CheckModeCmd_Mutant(args) == <<BinPath, " ">> \o Join(" ", args)

\* return_dict['cmd'] in check mode
CheckModeCmd(args) == <<"sysdumpdev ">> \o Join(" ", args)

\* cmd = [sysdumpdev_command] + cmd_args in set_dump_config
SetCmd(args) == <<BinPath>> \o args

\* payload of fail_json in set_dump_config / get_dump_config; the message is
\* msg followed by msg_cmd
CommandFailure(cmd, rc, out, err) ==
    [changed |-> Absent, cmd |-> AbsentText, rc |-> Str(rc), stdout |-> out,
     stderr |-> err, msg |-> FailedRunMsg, msg_cmd |-> Join(" ", cmd),
     facts |-> FALSE]

\* what update_dump_config returns after set_dump_config succeeded
AppliedResult(args, rc) ==
    [ReturnDict(TRUE) EXCEPT !.cmd = Join(" ", SetCmd(args)), !.rc = Str(rc),
                             !.stdout = ApplyStdout, !.stderr = ApplyStderr]

\* what update_dump_config returns in check mode with changes pending
CheckModeResult(args) == [ReturnDict(TRUE) EXCEPT !.cmd = CheckModeCmd(args)]

\* the unchanged result with rc left as initialised
NoChangeResult_Mutant == [ReturnDict(FALSE) EXCEPT !.msg = NoChangeMsg]

\* what update_dump_config returns when nothing changed
NoChangeResult == [ReturnDict(FALSE) EXCEPT !.rc = "0", !.msg = NoChangeMsg]

\* no payload: the invocation has not ended, or ended in an exception
NoPayload ==
    [changed |-> Absent, cmd |-> AbsentText, rc |-> Absent, stdout |-> Absent,
     stderr |-> Absent, msg |-> Absent, msg_cmd |-> EmptyText, facts |-> FALSE]

----------------------------------------------------------------------------
(* The dump subsystem behind the sysdumpdev command *)

\* the report `sysdumpdev -l` prints for the settings s
Report(s) ==
    << <<"primary", s.primary>>,
       <<"secondary", s.secondary>>,
       <<"copy", "directory", s.copy_directory>>,
       <<"forced", "copy", "flag", s.forced_copy_flag>>,
       <<"always", "allow", "dump", s.always_allow_dump>>,
       <<"dump", "compression", s.dump_compression>>,
       <<"type", "of", "dump", s.dump_type>>,
       <<"full", "memory", "dump", s.dump_mode>> >>
    \o (IF s.nx_gzip = Absent THEN <<>> ELSE << <<"enable", "NX", "GZIP", s.nx_gzip>> >>)

\* the flag is among the arguments of the command
Passed(args, flag) == \E i \in DOMAIN args : args[i] = flag

\* the argument that follows the flag
ArgOf(args, flag) == args[(CHOOSE i \in DOMAIN args : args[i] = flag) + 1]

\* the settings after a successful `sysdumpdev <args>`: every flag passed
\* sets the value it carries
ApplyFlags(s, args) ==
    [primary |-> IF Passed(args, "-p") THEN ArgOf(args, "-p") ELSE s.primary,
     secondary |-> IF Passed(args, "-s") THEN ArgOf(args, "-s") ELSE s.secondary,
     copy_directory |-> IF Passed(args, "-D") THEN ArgOf(args, "-D")
                        ELSE IF Passed(args, "-d") THEN ArgOf(args, "-d")
                        ELSE s.copy_directory,
     forced_copy_flag |-> IF Passed(args, "-D") THEN "TRUE"
                          ELSE IF Passed(args, "-d") THEN "FALSE"
                          ELSE s.forced_copy_flag,
     always_allow_dump |-> IF Passed(args, "-K") THEN "TRUE"
                           ELSE IF Passed(args, "-k") THEN "FALSE"
                           ELSE s.always_allow_dump,
     dump_compression |-> s.dump_compression,
     dump_type |-> IF Passed(args, "-t") THEN ArgOf(args, "-t") ELSE s.dump_type,
     dump_mode |-> IF Passed(args, "-f") THEN ArgOf(args, "-f") ELSE s.dump_mode,
     nx_gzip |-> IF Passed(args, "-N") THEN "TRUE"
                 ELSE IF Passed(args, "-n") THEN "FALSE"
                 ELSE s.nx_gzip]

----------------------------------------------------------------------------
(* run_module: argument checks made before the configuration is read *)

\* required_together=[['forced_copy_flag', 'copy_directory']]
RequiredTogetherFails(p) ==
    Specified(p, "forced_copy_flag") /= Specified(p, "copy_directory")

\* required_if=[('permanent', True, ['primary', 'secondary'], True)]
RequiredIfFails(p) ==
    p.permanent = True /\ ~Specified(p, "primary") /\ ~Specified(p, "secondary")

\* if module.params.get('dump_mode') and module.params.get('dump_type') != 'fw-assisted'
DumpModeNeedsTypeFails(p) ==
    Specified(p, "dump_mode") /\ p.dump_type /= "fw-assisted"

RequiredTogetherMsg == "parameters are required together: forced_copy_flag, copy_directory"
RequiredIfMsg == "permanent is True but any of the following are missing: primary, secondary"
DumpModeNeedsTypeMsg == "If 'dump_mode' is specified, 'dump_type' must be 'fw-assisted'."

ValidationMsg(p) ==
    IF RequiredTogetherFails(p) THEN RequiredTogetherMsg
    ELSE IF RequiredIfFails(p) THEN RequiredIfMsg
    ELSE IF DumpModeNeedsTypeFails(p) THEN DumpModeNeedsTypeMsg
    ELSE Absent

\* `result` as run_module initialises it, with the record under sysdumpdev_config
FactResult ==
    [changed |-> False, cmd |-> EmptyText, rc |-> Absent, stdout |-> "",
     stderr |-> "", msg |-> Absent, msg_cmd |-> EmptyText, facts |-> TRUE]

----------------------------------------------------------------------------
(* Inputs *)

OptBool == {None, True, False}

\* parameters of a state=present invocation, the primary device among `primaries`
PresentParams(primaries) ==
    [state : {"present"},
     primary : primaries,
     secondary : {None, "/dev/sysdumpnull", "/dev/sysdump1"},
     permanent : {True, False},
     copy_directory : {None, "/var/adm/ras", "/var/adm/dump"},
     forced_copy_flag : OptBool,
     always_allow_dump : OptBool,
     nx_gzip : OptBool,
     dump_type : {None, "traditional", "fw-assisted"},
     dump_mode : {None, "disallow", "allow"}]

\* parameters of a state=fact invocation: the settings are left at their defaults
FactParams ==
    [state : {"fact"},
     primary : {None},
     secondary : {None},
     permanent : {False},
     copy_directory : {None},
     forced_copy_flag : {None},
     always_allow_dump : {None},
     nx_gzip : {None},
     dump_type : {None},
     dump_mode : {None}]

Devices == {None, "/dev/lg_dumplv", "/dev/sysdump0"}

ParamSets == PresentParams(Devices) \cup FactParams

\* the same, and a primary device whose name reads as a boolean of the report
RerunParamSets == PresentParams(Devices \cup {"TRUE"}) \cup FactParams

InitialSettings ==
    [primary : {"/dev/lg_dumplv"},
     secondary : {"/dev/sysdumpnull"},
     copy_directory : {"/var/adm/ras"},
     forced_copy_flag : {"TRUE", "FALSE"},
     always_allow_dump : {"FALSE"},
     dump_compression : {"ON"},
     dump_type : {"traditional", "fw-assisted"},
     dump_mode : {"disallow"},
     nx_gzip : {Absent, "TRUE"}]

NoPrev == [outcome |-> "none", changed |-> Absent, apply_rc |-> NoRc]

Init ==
    /\ params \in ParamSets
    /\ check_mode \in BOOLEAN
    /\ sys \in InitialSettings
    /\ pc = "run_module"
    /\ run = 1
    /\ query_rc = NoRc
    /\ stdout = <<>>
    /\ current_config = EmptyConfig
    /\ cmd_args = <<>>
    /\ applyCalls = <<>>
    /\ apply_rc = NoRc
    /\ outcome = "none"
    /\ ended = "none"
    /\ result = NoPayload
    /\ prev = NoPrev

----------------------------------------------------------------------------
(* Steps of run_module *)

\* AnsibleModule(...) and the dump_mode / dump_type check
Validate ==
    /\ pc = "run_module"
    /\ IF ValidationMsg(params) /= Absent
       THEN /\ pc' = "exit"
            /\ outcome' = "fail_json"
            /\ ended' = "run_module"
            /\ result' = [NoPayload EXCEPT !.msg = ValidationMsg(params)]
       ELSE /\ pc' = "validated"
            /\ UNCHANGED <<outcome, ended, result>>
    /\ UNCHANGED <<params, check_mode, sys, run, query_rc, stdout, current_config,
                   cmd_args, applyCalls, apply_rc, prev>>

\* get_dump_config on the exit code rc and the report out of the query
GetDumpConfigOn(rc, out) ==
    /\ query_rc' = rc
    /\ stdout' = out
    /\ IF QueryFails(rc)
       THEN /\ pc' = "exit"
            /\ outcome' = "fail_json"
            /\ ended' = "get_dump_config"
            /\ result' = CommandFailure(<<BinPath, "-l">>, CheckedRc(rc), "", "")
            /\ UNCHANGED current_config
       ELSE IF ReportRaises(out)
       THEN /\ pc' = "exit"
            /\ outcome' = "IndexError"
            /\ ended' = "get_dump_config"
            /\ UNCHANGED <<result, current_config>>
       ELSE /\ pc' = "fetched"
            /\ current_config' = ParseReport(out)
            /\ UNCHANGED <<outcome, ended, result>>

\* current_config = get_dump_config(module): the query may fail, and then
\* prints the report or nothing
GetDumpConfig ==
    /\ pc = "validated"
    /\ \E rc \in {0, 1} :
         \E out \in (IF rc = 0 THEN {Report(sys)} ELSE {Report(sys), <<>>}) :
            GetDumpConfigOn(rc, out)
    /\ UNCHANGED <<params, check_mode, sys, run, cmd_args, applyCalls, apply_rc, prev>>

\* state == 'fact': result['sysdumpdev_config'] = current_config; exit_json
FetchFacts ==
    /\ pc = "fetched"
    /\ params.state = "fact"
    /\ pc' = "exit"
    /\ outcome' = "exit_json"
    /\ ended' = "run_module"
    /\ result' = FactResult
    /\ UNCHANGED <<params, check_mode, sys, run, query_rc, stdout, current_config,
                   cmd_args, applyCalls, apply_rc, prev>>

\* set_dump_config(module, args) with exit code rc, and the return of
\* update_dump_config after it
SetDumpConfig(args, rc) ==
    /\ applyCalls' = Append(applyCalls, SetCmd(args))
    /\ apply_rc' = rc
    /\ IF rc /= 0
       THEN /\ outcome' = "fail_json"
            /\ result' = CommandFailure(SetCmd(args), rc, ApplyStdout, ApplyStderr)
            /\ UNCHANGED sys
       ELSE /\ outcome' = "exit_json"
            /\ result' = AppliedResult(args, rc)
            /\ sys' = ApplyFlags(sys, args)

\* result = update_dump_config(module, current_config); exit_json
UpdateDumpConfig ==
    /\ pc = "fetched"
    /\ params.state = "present"
    /\ pc' = "exit"
    /\ ended' = "update_dump_config"
    /\ LET p == params
           cur == current_config
       IN  IF KeyErrorBeforeNx(p, cur)
           THEN /\ outcome' = "KeyError"
                /\ UNCHANGED <<result, cmd_args, applyCalls, apply_rc, sys>>
           ELSE IF NxGzipUnavailable(p, cur)
           THEN /\ outcome' = "fail_json"
                /\ result' = [ReturnDict(ChangedBeforeNx(p, cur)) EXCEPT !.msg = NxGzipMsg]
                /\ cmd_args' = ArgsBeforeNx(p, cur)
                /\ UNCHANGED <<applyCalls, apply_rc, sys>>
           ELSE IF KeyErrorAfterNx(p, cur)
           THEN /\ outcome' = "KeyError"
                /\ UNCHANGED <<result, cmd_args, applyCalls, apply_rc, sys>>
           ELSE IF DumpModePrecondFails(p, cur)
           THEN /\ outcome' = "fail_json"
                /\ result' = [ReturnDict(ChangedBeforeMode(p, cur)) EXCEPT !.msg = DumpModeMsg]
                /\ cmd_args' = ArgsBeforeMode(p, cur)
                /\ UNCHANGED <<applyCalls, apply_rc, sys>>
           ELSE /\ cmd_args' = AllArgs(p, cur)
                /\ IF ChangedAtEnd(p, cur)
                   THEN IF check_mode
                        THEN /\ outcome' = "exit_json"
                             /\ result' = CheckModeResult(AllArgs(p, cur))
                             /\ UNCHANGED <<applyCalls, apply_rc, sys>>
                        ELSE \E rc \in {0, 1} : SetDumpConfig(AllArgs(p, cur), rc)
                   ELSE /\ outcome' = "exit_json"
                        /\ result' = NoChangeResult
                        /\ UNCHANGED <<applyCalls, apply_rc, sys>>
    /\ UNCHANGED <<params, check_mode, run, query_rc, stdout, current_config, prev>>

\* the module is invoked again with the same parameters
NextRun ==
    /\ pc = "exit"
    /\ run < MaxRuns
    /\ pc' = "run_module"
    /\ run' = run + 1
    /\ prev' = [outcome |-> outcome, changed |-> result.changed, apply_rc |-> apply_rc]
    /\ query_rc' = NoRc
    /\ stdout' = <<>>
    /\ current_config' = EmptyConfig
    /\ cmd_args' = <<>>
    /\ applyCalls' = <<>>
    /\ apply_rc' = NoRc
    /\ outcome' = "none"
    /\ ended' = "none"
    /\ result' = NoPayload
    /\ UNCHANGED <<params, check_mode, sys>>

\* one invocation of the module
Next == Validate \/ GetDumpConfig \/ FetchFacts \/ UpdateDumpConfig

Spec == Init /\ [][Next]_vars

\* successive invocations with the same parameters, check mode off
InitRerun ==
    /\ params \in RerunParamSets
    /\ check_mode = FALSE
    /\ sys \in InitialSettings
    /\ pc = "run_module"
    /\ run = 1
    /\ query_rc = NoRc
    /\ stdout = <<>>
    /\ current_config = EmptyConfig
    /\ cmd_args = <<>>
    /\ applyCalls = <<>>
    /\ apply_rc = NoRc
    /\ outcome = "none"
    /\ ended = "none"
    /\ result = NoPayload
    /\ prev = NoPrev

NextRerun == Validate \/ GetDumpConfig \/ FetchFacts \/ UpdateDumpConfig \/ NextRun

SpecRerun == InitRerun /\ [][NextRerun]_vars

----------------------------------------------------------------------------
(* get_dump_config on arbitrary reports *)

ValueTokens == {"TRUE", "FALSE", "ON", "OFF", "/dev/lg_dumplv"}

\* a line of each recognised prefix with each value, a line with no recognised
\* prefix (it only shares its first word with one), a line that lacks its value
ReportLines ==
    {PrefixTable[i].words \o <<v>> : i \in DOMAIN PrefixTable, v \in ValueTokens}
        \cup {<<"dump", "status", "code", "TRUE">>, <<"secondary">>}

RECURSIVE SeqsUpTo(_, _)
\* the sequences over S of length at most n
SeqsUpTo(S, n) ==
    IF n = 0 THEN {<<>>}
    ELSE LET shorter == SeqsUpTo(S, n - 1)
         IN  shorter \cup {Append(q, x) : q \in shorter, x \in S}

Reports == SeqsUpTo(ReportLines, MaxLines)

InitParse ==
    /\ params \in FactParams
    /\ check_mode = FALSE
    /\ sys \in {s \in InitialSettings : s.nx_gzip = Absent /\ s.dump_type = "traditional"
                                        /\ s.forced_copy_flag = "TRUE"}
    /\ pc = "validated"
    /\ run = 1
    /\ query_rc = NoRc
    /\ stdout \in Reports
    /\ current_config = EmptyConfig
    /\ cmd_args = <<>>
    /\ applyCalls = <<>>
    /\ apply_rc = NoRc
    /\ outcome = "none"
    /\ ended = "none"
    /\ result = NoPayload
    /\ prev = NoPrev

\* current_config = get_dump_config(module) when the query printed `stdout`
GetDumpConfigOfReport ==
    /\ pc = "validated"
    /\ \E rc \in {0, 1} : GetDumpConfigOn(rc, stdout)
    /\ UNCHANGED <<params, check_mode, sys, run, cmd_args, applyCalls, apply_rc, prev>>

NextParse == GetDumpConfigOfReport

SpecParse == InitParse /\ [][NextParse]_vars

----------------------------------------------------------------------------
(* Vocabulary of the properties *)

BooleanFields == {"forced_copy_flag", "always_allow_dump", "dump_compression", "nx_gzip"}

StringFields == {"primary", "secondary", "copy_directory", "dump_type", "dump_mode"}

\* the report lines that carry the field
LinesOf(lines, key) ==
    {n \in DOMAIN lines :
        \E i \in DOMAIN PrefixTable :
            PrefixTable[i].key = key /\ StartsWith(lines[n], PrefixTable[i].words)}

\* the value token of the last line that carries the field
TokenOf(lines, key) ==
    LET n == CHOOSE m \in LinesOf(lines, key) : \A k \in LinesOf(lines, key) : k <= m
        i == CHOOSE j \in DOMAIN PrefixTable : PrefixTable[j].key = key
    IN  lines[n][Len(PrefixTable[i].words) + 1]

\* get_dump_config returned a record
Fetched == pc = "fetched"

\* C10: in the record get_dump_config returns, a boolean field whose token is
\* TRUE/ON is the boolean true and FALSE/OFF the boolean false, every other
\* field is the string token of its line whatever the token, and a field is in
\* the record exactly when the report has a line with its prefix.
C10_ParsingNormalisation ==
    Fetched =>
        /\ \A key \in Keys : (key \in DOMAIN current_config) <=> (LinesOf(stdout, key) /= {})
        /\ \A key \in BooleanFields \cap DOMAIN current_config :
              /\ TokenOf(stdout, key) \in {"TRUE", "ON"} => current_config[key] = True
              /\ TokenOf(stdout, key) \in {"FALSE", "OFF"} => current_config[key] = False
        /\ \A key \in StringFields \cap DOMAIN current_config :
              current_config[key] = TokenOf(stdout, key)

\* C5: when the query command exits nonzero, get_dump_config fails with the
\* command's exit code and no configuration record is returned.
C5_QueryFailureSurfaced ==
    query_rc = 1 =>
        /\ pc = "exit"
        /\ ended = "get_dump_config"
        /\ outcome = "fail_json"
        /\ result.rc = Str(query_rc)

\* update_dump_config ran to its end: it returned or called fail_json
UpdateEnded ==
    /\ pc = "exit"
    /\ ended = "update_dump_config"
    /\ outcome \in {"exit_json", "fail_json"}

\* update_dump_config returned a result
UpdateReturned ==
    /\ pc = "exit"
    /\ ended = "update_dump_config"
    /\ outcome = "exit_json"

\* the desired value of the field is given and is not the current one
Differs(key) ==
    /\ params[key] /= None
    /\ key \in DOMAIN current_config
    /\ params[key] /= current_config[key]

SettableFields == {"primary", "secondary", "copy_directory", "forced_copy_flag",
                   "always_allow_dump", "nx_gzip", "dump_type", "dump_mode"}

\* the fields whose desired value is given and is not the current one
DifferingFields == {key \in SettableFields : Differs(key)}

\* the record has every field that every platform reports
Complete == (Keys \ {"nx_gzip"}) \subseteq DOMAIN current_config

\* nx_gzip is requested and the record has no nx_gzip key
NxUnsupported == params.nx_gzip /= None /\ "nx_gzip" \notin DOMAIN current_config

\* dump_mode is requested and the current dump_type is not fw-assisted
ModeWithoutFw ==
    /\ params.dump_mode /= None
    /\ Complete
    /\ current_config["dump_type"] /= "fw-assisted"

HasFlag(args, flag) == \E i \in DOMAIN args : args[i] = flag

\* position of the flag in the fixed order of the groups; 0 for a value
FlagRank(tok) ==
    CASE tok = "-p" -> 1
      [] tok = "-s" -> 2
      [] tok = "-P" -> 3
      [] tok \in {"-D", "-d"} -> 4
      [] tok \in {"-K", "-k"} -> 5
      [] tok \in {"-N", "-n"} -> 6
      [] tok = "-t" -> 7
      [] tok = "-f" -> 8
      [] OTHER -> 0

ValueFlags == {"-p", "-s", "-D", "-d", "-t", "-f"}

\* flags in strictly increasing group order, each value flag followed by one
\* value, and no value anywhere else
WellOrdered(args) ==
    /\ \A i, j \in DOMAIN args :
          (i < j /\ FlagRank(args[i]) > 0 /\ FlagRank(args[j]) > 0)
              => FlagRank(args[i]) < FlagRank(args[j])
    /\ \A i \in DOMAIN args :
          IF args[i] \in ValueFlags /\ (i = 1 \/ FlagRank(args[i - 1]) > 0 \/ args[i - 1] \notin ValueFlags)
          THEN i < Len(args) /\ FlagRank(args[i + 1]) = 0
          ELSE TRUE
    /\ \A i \in DOMAIN args :
          FlagRank(args[i]) = 0 => (i > 1 /\ args[i - 1] \in ValueFlags)

\* the value that follows the flag
ValueAfter(args, flag) ==
    LET i == CHOOSE j \in DOMAIN args : args[j] = flag IN args[i + 1]

----------------------------------------------------------------------------
(* Properties *)

\* C1: outside check mode, when one invocation returned changed=true after a
\* successful apply, the next invocation with the same parameters on the
\* re-fetched configuration returns changed=false and runs no apply command.
C1_Idempotence ==
    ( /\ pc = "exit"
      /\ run > 1
      /\ ~check_mode
      /\ prev.outcome = "exit_json"
      /\ prev.changed = True
      /\ prev.apply_rc = 0
      /\ query_rc = 0 )
    => /\ ended = "update_dump_config"
       /\ outcome = "exit_json"
       /\ result.changed = False
       /\ applyCalls = <<>>

\* C2: in check mode, when update_dump_config returns with a change pending,
\* the result is changed=true with cmd 'sysdumpdev ' plus the accumulated
\* arguments joined by spaces, rc/stdout/stderr are empty; and no invocation in
\* check mode ever runs the apply command.
C2_DryRun ==
    /\ (UpdateReturned /\ check_mode /\ DifferingFields /= {}) =>
          /\ result.changed = True
          /\ cmd_args /= <<>>
          /\ result.cmd = <<"sysdumpdev ">> \o Join(" ", cmd_args)
          /\ result.rc = ""
          /\ result.stdout = ""
          /\ result.stderr = ""
    /\ check_mode => applyCalls = <<>>

C2_Witness ==
    /\ UpdateReturned
    /\ check_mode
    /\ result.cmd = <<"sysdumpdev ", "-p", " ", "/dev/sysdump0", " ", "-s", " ", "/dev/sysdump1">>

\* C3 as claimed: whenever dump_mode is specified and the current dump_type is
\* not fw-assisted, update_dump_config fails with the dump_mode message,
\* whatever the other desired fields are, and nothing is built or executed.
C3_DumpModePrecondition_Claimed ==
    (pc = "exit" /\ ended = "update_dump_config" /\ ModeWithoutFw) =>
        /\ outcome = "fail_json"
        /\ result.msg = DumpModeMsg
        /\ result.cmd = EmptyText
        /\ applyCalls = <<>>

\* C3 (amended): whenever dump_mode is specified and the current dump_type is
\* not fw-assisted, update_dump_config fails and nothing is built or executed;
\* the failure carries the dump_mode message unless nx_gzip is specified and
\* the record has no nx_gzip key, and then it carries the nx_gzip message.
C3_DumpModePrecondition ==
    (pc = "exit" /\ ended = "update_dump_config" /\ ModeWithoutFw) =>
        /\ outcome = "fail_json"
        /\ result.msg = (IF NxUnsupported THEN NxGzipMsg ELSE DumpModeMsg)
        /\ result.cmd = EmptyText
        /\ result.rc = ""
        /\ applyCalls = <<>>
        /\ ~HasFlag(cmd_args, "-f")

\* dump_mode equal to the current one, flags already accumulated, desired
\* dump_type fw-assisted
C3_Witness ==
    /\ UpdateEnded
    /\ ModeWithoutFw
    /\ ~NxUnsupported
    /\ params.dump_mode = current_config["dump_mode"]
    /\ params.dump_type = "fw-assisted"
    /\ HasFlag(cmd_args, "-p")
    /\ HasFlag(cmd_args, "-t")
    /\ result.msg = DumpModeMsg

\* C4: whenever nx_gzip is specified and the record has no nx_gzip key,
\* update_dump_config fails with the nx_gzip message; the dump_type and
\* dump_mode blocks are not run (no -t, no -f, no dump_mode message) and the
\* apply command is not invoked, whatever the earlier fields accumulated.
C4_NxGzipUnsupported ==
    (pc = "exit" /\ ended = "update_dump_config" /\ Complete /\ NxUnsupported) =>
        /\ outcome = "fail_json"
        /\ result.msg = NxGzipMsg
        /\ result.cmd = EmptyText
        /\ ~HasFlag(cmd_args, "-t")
        /\ ~HasFlag(cmd_args, "-f")
        /\ ~HasFlag(cmd_args, "-N")
        /\ ~HasFlag(cmd_args, "-n")
        /\ applyCalls = <<>>

C4_Witness ==
    /\ UpdateEnded
    /\ NxUnsupported
    /\ ModeWithoutFw
    /\ Differs("dump_type")
    /\ HasFlag(cmd_args, "-p")
    /\ HasFlag(cmd_args, "-K")
    /\ ~check_mode
    /\ result.msg = NxGzipMsg

\* C6: the flag groups of every built command are in the order -p, -s, -P,
\* -D|-d, -K|-k, -N|-n, -t, -f, each at most once and each value flag with its
\* value; -P is there exactly when permanent is true and primary or secondary
\* changed; outside check mode the apply command receives the binary followed
\* by exactly this sequence.
C6_ArgumentOrder ==
    /\ WellOrdered(cmd_args)
    /\ UpdateEnded =>
          (HasFlag(cmd_args, "-P") <=>
              (params.permanent = True /\ (Differs("primary") \/ Differs("secondary"))))
    /\ \A n \in DOMAIN applyCalls : applyCalls[n] = <<BinPath>> \o cmd_args
    /\ (UpdateReturned /\ ~check_mode /\ cmd_args /= <<>>) => Len(applyCalls) = 1

C6_Witness ==
    /\ UpdateReturned
    /\ ~check_mode
    /\ applyCalls = << <<BinPath, "-p", "/dev/sysdump0", "-s", "/dev/sysdump1", "-P",
                         "-d", "/var/adm/dump", "-K", "-n", "-f", "allow">> >>

\* the flag of a field whose value differs, for the fields with a flag of their own
OwnFlag(key) ==
    CASE key = "primary" -> <<"-p", params.primary>>
      [] key = "secondary" -> <<"-s", params.secondary>>
      [] key = "always_allow_dump" -> <<IF params.always_allow_dump = True THEN "-K" ELSE "-k">>
      [] key = "nx_gzip" -> <<IF params.nx_gzip = True THEN "-N" ELSE "-n">>
      [] key = "dump_type" -> <<"-t", params.dump_type>>
      [] key = "dump_mode" -> <<"-f", params.dump_mode>>

OwnFlagFields == {"primary", "secondary", "always_allow_dump", "nx_gzip", "dump_type", "dump_mode"}

\* C7: a flag is in the built command only if its field is specified and
\* differs from the current value (-D/-d: copy_directory or forced_copy_flag;
\* -P: permanent true and a device that differs); an unspecified field has no
\* flag in the command; when exactly one field differs, the command is
\* exactly that field's flag (followed by -P for a device with permanent).
C7_MinimalChangeSet ==
    UpdateEnded =>
        /\ HasFlag(cmd_args, "-p") => Differs("primary")
        /\ HasFlag(cmd_args, "-s") => Differs("secondary")
        /\ HasFlag(cmd_args, "-P") => (Differs("primary") \/ Differs("secondary"))
        /\ (HasFlag(cmd_args, "-D") \/ HasFlag(cmd_args, "-d"))
              => (Differs("copy_directory") \/ Differs("forced_copy_flag"))
        /\ (HasFlag(cmd_args, "-K") \/ HasFlag(cmd_args, "-k")) => Differs("always_allow_dump")
        /\ (HasFlag(cmd_args, "-N") \/ HasFlag(cmd_args, "-n")) => Differs("nx_gzip")
        /\ HasFlag(cmd_args, "-t") => Differs("dump_type")
        /\ HasFlag(cmd_args, "-f") => Differs("dump_mode")
        /\ HasFlag(cmd_args, "-K") => params.always_allow_dump = True
        /\ HasFlag(cmd_args, "-k") => params.always_allow_dump = False
        /\ HasFlag(cmd_args, "-N") => params.nx_gzip = True
        /\ HasFlag(cmd_args, "-n") => params.nx_gzip = False
        /\ \A key \in OwnFlagFields :
              (UpdateReturned /\ DifferingFields = {key}) =>
                  cmd_args = OwnFlag(key) \o
                      (IF key \in {"primary", "secondary"} /\ params.permanent = True
                       THEN <<"-P">> ELSE <<>>)

\* only always_allow_dump differs, several other fields are specified and equal
C7_Witness ==
    /\ UpdateReturned
    /\ DifferingFields = {"always_allow_dump"}
    /\ params.primary /= None
    /\ params.copy_directory /= None
    /\ params.dump_type /= None
    /\ params.nx_gzip /= None
    /\ cmd_args = <<"-K">>

\* the forced-copy flag the command must establish
TargetForcedCopyFlag ==
    IF Differs("forced_copy_flag") THEN params.forced_copy_flag
    ELSE current_config["forced_copy_flag"]

\* the copy directory the command must carry
TargetCopyDirectory ==
    IF Differs("copy_directory") THEN params.copy_directory
    ELSE current_config["copy_directory"]

\* C8: the built command has at most one of -D / -d, and has one exactly when
\* copy_directory or forced_copy_flag is specified and differs; it is -D
\* exactly when the target forced-copy flag is true, and its argument is the
\* target directory (the current one when only the flag changed).
C8_CopyPolicy ==
    UpdateEnded =>
        /\ ~(HasFlag(cmd_args, "-D") /\ HasFlag(cmd_args, "-d"))
        /\ Cardinality({i \in DOMAIN cmd_args : cmd_args[i] \in {"-D", "-d"}}) <= 1
        /\ (HasFlag(cmd_args, "-D") \/ HasFlag(cmd_args, "-d"))
              <=> (Differs("copy_directory") \/ Differs("forced_copy_flag"))
        /\ HasFlag(cmd_args, "-D") => (TargetForcedCopyFlag = True
                                        /\ ValueAfter(cmd_args, "-D") = TargetCopyDirectory)
        /\ HasFlag(cmd_args, "-d") => (TargetForcedCopyFlag /= True
                                        /\ ValueAfter(cmd_args, "-d") = TargetCopyDirectory)

\* only the flag changed: the current directory is supplied again
C8_Witness ==
    /\ UpdateReturned
    /\ Differs("forced_copy_flag")
    /\ ~Differs("copy_directory")
    /\ cmd_args = <<"-D", "/var/adm/ras">>
    /\ current_config["copy_directory"] = "/var/adm/ras"

\* C9: when every specified field equals its current value and no
\* precondition fails, update_dump_config accumulates nothing, runs no apply
\* command and returns changed=false, rc=0, msg 'No modification is
\* required', empty cmd/stdout/stderr, in check mode and outside it.
C9_NoOp ==
    ( /\ pc = "exit"
      /\ ended = "update_dump_config"
      /\ Complete
      /\ ~NxUnsupported
      /\ ~ModeWithoutFw
      /\ DifferingFields = {} )
    => /\ outcome = "exit_json"
       /\ cmd_args = <<>>
       /\ applyCalls = <<>>
       /\ result.changed = False
       /\ result.rc = "0"
       /\ result.msg = NoChangeMsg
       /\ result.cmd = EmptyText
       /\ result.stdout = ""
       /\ result.stderr = ""

\* devices equal to the current ones with permanent set, outside check mode
C9_Witness ==
    /\ UpdateReturned
    /\ ~check_mode
    /\ DifferingFields = {}
    /\ params.primary /= None
    /\ params.secondary /= None
    /\ params.permanent = True
    /\ params.dump_mode /= None
    /\ result.msg = NoChangeMsg

\* C11: outside check mode, a terminal payload of update_dump_config (the
\* returned result, or the payload handed to fail_json at the nx_gzip and
\* dump_mode failures) carries changed=true only if the apply command was
\* invoked in that call and exited with 0.
C11_ChangedOnlyAfterApply ==
    ( /\ pc = "exit"
      /\ ended = "update_dump_config"
      /\ outcome \in {"exit_json", "fail_json"}
      /\ ~check_mode
      /\ result.changed = True )
    => /\ Len(applyCalls) = 1
       /\ apply_rc = 0

====
